---- MODULE Spec2Model ----
(***************************************************************************)
(* String Analysis Service (src/main.py): the in-memory record store, the  *)
(* analyzer, the natural-language query parser, the filter, the request    *)
(* handlers, the order in which the routes are registered, and the         *)
(* handlers run by concurrent worker threads.                              *)
(*                                                                         *)
(* A text is a sequence of characters; a character is a one-character      *)
(* string, except the two code points written "U+0130" (capital I with dot *)
(* above) and "U+0307" (combining dot above).                              *)
(***************************************************************************)
EXTENDS Integers, Sequences, FiniteSets, TLC

VARIABLES
    stored_strings,  \* the dict of main.py:13, as its entries in insertion order
    request,         \* the call being answered
    response,        \* its answer
    threads,         \* per worker thread: position and locals of its handler
    dk_entries       \* the dict's entry array (deleted slots kept) under threads

vars == <<stored_strings, request, response, threads, dk_entries>>

----------------------------------------------------------------------------
(* Characters and strings: str.lower, slicing, str.split, str.encode.      *)

UpperCase ==
    <<"A", "B", "C", "D", "E", "F", "G", "H", "I", "J", "K", "L", "M",
      "N", "O", "P", "Q", "R", "S", "T", "U", "V", "W", "X", "Y", "Z">>

LowerCase ==
    <<"a", "b", "c", "d", "e", "f", "g", "h", "i", "j", "k", "l", "m",
      "n", "o", "p", "q", "r", "s", "t", "u", "v", "w", "x", "y", "z">>

DigitChars == <<"0", "1", "2", "3", "4", "5", "6", "7", "8", "9">>

\* The characters str.split() and str.strip() treat as whitespace (the ASCII ones).
Whitespace == {" ", "\t", "\n", "\r", "\f"}

IndexIn(seq, c) == CHOOSE i \in 1..Len(seq) : seq[i] = c

IsIn(seq, c) == \E i \in 1..Len(seq) : seq[i] = c

\* str.lower() of one character: a sequence, because the lowercase form of
\* U+0130 is the two code points "i", U+0307.
lower_char(c) ==
    IF IsIn(UpperCase, c) THEN <<LowerCase[IndexIn(UpperCase, c)]>>
    ELSE IF c = "U+0130" THEN <<"i", "U+0307">>
    ELSE <<c>>

RECURSIVE str_lower(_)
str_lower(text) ==
    IF text = <<>> THEN <<>>
    ELSE lower_char(Head(text)) \o str_lower(Tail(text))

\* text[::-1]
reversed(text) == [i \in 1..Len(text) |-> text[Len(text) + 1 - i]]

\* The UTF-8 bytes of one character.
utf8_char(c) ==
    IF IsIn(LowerCase, c) THEN <<96 + IndexIn(LowerCase, c)>>
    ELSE IF IsIn(UpperCase, c) THEN <<64 + IndexIn(UpperCase, c)>>
    ELSE IF IsIn(DigitChars, c) THEN <<47 + IndexIn(DigitChars, c)>>
    ELSE IF c = " " THEN <<32>>
    ELSE IF c = "\t" THEN <<9>>
    ELSE IF c = "\n" THEN <<10>>
    ELSE IF c = "\f" THEN <<12>>
    ELSE IF c = "\r" THEN <<13>>
    ELSE IF c = "/" THEN <<47>>
    ELSE IF c = "-" THEN <<45>>
    ELSE IF c = "U+0130" THEN <<196, 176>>
    ELSE IF c = "U+0307" THEN <<204, 135>>
    ELSE <<63>>

RECURSIVE str_encode(_)
str_encode(text) ==
    IF text = <<>> THEN <<>>
    ELSE utf8_char(Head(text)) \o str_encode(Tail(text))

\* text in container (substring test)
Contains(text, sub) ==
    \E i \in 0..(Len(text) - Len(sub)) :
        \A j \in 1..Len(sub) : text[i + j] = sub[j]

----------------------------------------------------------------------------
(* StringAnalysis, main.py:18-52.                                          *)

\* SHA-256 of the encoded text: a digest is determined by the bytes, and two
\* byte strings never share one (no collision is known or modelled).
compute_hash(text) == [sha256_of |-> str_encode(text)]

check_palindrome(text) ==
    LET cleaned == str_lower(text)
    IN  cleaned = reversed(cleaned)

count_unique_chars(text) == Cardinality({text[i] : i \in 1..Len(text)})

\* len(text.split()): the maximal runs of non-whitespace characters.
count_words(text) ==
    Cardinality({i \in 1..Len(text) :
                    /\ text[i] \notin Whitespace
                    /\ (i = 1 \/ text[i - 1] \in Whitespace)})

build_char_frequency(text) ==
    [c \in {text[i] : i \in 1..Len(text)} |->
        Cardinality({i \in 1..Len(text) : text[i] = c})]

analyze(text) ==
    [length                  |-> Len(text),
     is_palindrome           |-> check_palindrome(text),
     unique_characters       |-> count_unique_chars(text),
     word_count              |-> count_words(text),
     sha256_hash             |-> compute_hash(text),
     character_frequency_map |-> build_char_frequency(text)]

----------------------------------------------------------------------------
(* The regular expressions of QueryParser, main.py:76-85, as re.search     *)
(* evaluates them: the leftmost position where the pattern matches, \d+    *)
(* taking the longest run of digits.                                       *)

\* text[i+1 .. i+Len(lit)] = lit (i counts the characters skipped)
MatchAt(text, i, lit) ==
    /\ i + Len(lit) <= Len(text)
    /\ \A j \in 1..Len(lit) : text[i + j] = lit[j]

IsDigit(c) == IsIn(DigitChars, c)

\* the last position of the run of digits that starts at position p
RECURSIVE DigitRunEnd(_, _)
DigitRunEnd(text, p) ==
    IF p + 1 <= Len(text) /\ IsDigit(text[p + 1])
    THEN DigitRunEnd(text, p + 1)
    ELSE p

\* int(digits)
RECURSIVE str_int(_)
str_int(ds) ==
    IF ds = <<>> THEN 0
    ELSE str_int(SubSeq(ds, 1, Len(ds) - 1)) * 10
            + (IndexIn(DigitChars, ds[Len(ds)]) - 1)

\* re.search(lit + r"(\d+)", text): <<>> for no match, else <<group(1)>>
SearchNumber(text, lit) ==
    LET starts == {i \in 0..Len(text) :
                      /\ MatchAt(text, i, lit)
                      /\ i + Len(lit) + 1 <= Len(text)
                      /\ IsDigit(text[i + Len(lit) + 1])}
    IN  IF starts = {} THEN <<>>
        ELSE LET i == CHOOSE s \in starts : \A o \in starts : s <= o
                 p == i + Len(lit) + 1
             IN  <<SubSeq(text, p, DigitRunEnd(text, p))>>

LongerThan == <<"l", "o", "n", "g", "e", "r", " ", "t", "h", "a", "n", " ">>
ShorterThan == <<"s", "h", "o", "r", "t", "e", "r", " ", "t", "h", "a", "n", " ">>
ContainWord == <<"c", "o", "n", "t", "a", "i", "n">>
TheLetter == <<" ", "t", "h", "e", " ", "l", "e", "t", "t", "e", "r", " ">>

\* (?:s|ing)? : the alternatives in the order the engine tries them
ContainSuffixes == <<<<"s">>, <<"i", "n", "g">>, <<>> >>

AsciiLower == {LowerCase[i] : i \in 1..Len(LowerCase)}

\* the pattern r"contain(?:s|ing)? the letter ([a-z])" matched at position i:
\* <<>> for no match there, else <<group(1)>>
LetterMatchAt(text, i) ==
    LET ok(k) == LET lit == ContainWord \o ContainSuffixes[k] \o TheLetter
                 IN  /\ MatchAt(text, i, lit)
                     /\ i + Len(lit) + 1 <= Len(text)
                     /\ text[i + Len(lit) + 1] \in AsciiLower
        alts == {k \in 1..Len(ContainSuffixes) : ok(k)}
    IN  IF alts = {} THEN <<>>
        ELSE LET k == CHOOSE a \in alts : \A o \in alts : a <= o
                 lit == ContainWord \o ContainSuffixes[k] \o TheLetter
             IN  <<text[i + Len(lit) + 1]>>

\* re.search of that pattern
SearchLetter(text) ==
    LET starts == {i \in 0..Len(text) : LetterMatchAt(text, i) # <<>>}
    IN  IF starts = {} THEN <<>>
        ELSE LetterMatchAt(text, CHOOSE s \in starts : \A o \in starts : s <= o)

----------------------------------------------------------------------------
(* Dicts with string keys: conditions, filters.                            *)

EmptyDict == [k \in {} |-> 0]

\* d[k] = v
DictSet(d, k, v) == [x \in (DOMAIN d) \cup {k} |-> IF x = k THEN v ELSE d[x]]

----------------------------------------------------------------------------
(* QueryParser.extract_filters, main.py:54-92.                             *)

Palindrom == <<"p", "a", "l", "i", "n", "d", "r", "o", "m">>
FirstVowel == <<"f", "i", "r", "s", "t", " ", "v", "o", "w", "e", "l">>

\* word_patterns, in the dict's order
word_patterns ==
    << <<<<"s", "i", "n", "g", "l", "e", " ", "w", "o", "r", "d">>, 1>>,
       <<<<"t", "w", "o", " ", "w", "o", "r", "d">>, 2>>,
       <<<<"t", "h", "r", "e", "e", " ", "w", "o", "r", "d">>, 3>> >>

\* extract_filters with the "first vowel" rule applied before the letter rule
extract_filters_VowelFirst(query_text) ==
    LET query_lower == str_lower(query_text)
        c1 == IF Contains(query_lower, Palindrom)
              THEN DictSet(EmptyDict, "is_palindrome", TRUE)
              ELSE EmptyDict
        hits == {k \in 1..Len(word_patterns) :
                    Contains(query_lower, word_patterns[k][1])}
        c2 == IF hits = {} THEN c1
              ELSE LET k == CHOOSE h \in hits : \A o \in hits : h <= o
                   IN  DictSet(c1, "word_count", word_patterns[k][2])
        longer_match == SearchNumber(query_lower, LongerThan)
        c3 == IF longer_match # <<>>
              THEN DictSet(c2, "min_length", str_int(longer_match[1]) + 1)
              ELSE c2
        shorter_match == SearchNumber(query_lower, ShorterThan)
        c4 == IF shorter_match # <<>>
              THEN DictSet(c3, "max_length", str_int(shorter_match[1]) - 1)
              ELSE c3
        c5 == IF Contains(query_lower, FirstVowel)
              THEN DictSet(c4, "contains_character", <<"a">>)
              ELSE c4
        char_match == SearchLetter(query_lower)
        c6 == IF char_match # <<>>
              THEN DictSet(c5, "contains_character", <<char_match[1]>>)
              ELSE c5
    IN  c6

\* extract_filters with "shorter than N" read as "at most N"
extract_filters_AtMost(query_text) ==
    LET query_lower == str_lower(query_text)
        c1 == IF Contains(query_lower, Palindrom)
              THEN DictSet(EmptyDict, "is_palindrome", TRUE)
              ELSE EmptyDict
        hits == {k \in 1..Len(word_patterns) :
                    Contains(query_lower, word_patterns[k][1])}
        c2 == IF hits = {} THEN c1
              ELSE LET k == CHOOSE h \in hits : \A o \in hits : h <= o
                   IN  DictSet(c1, "word_count", word_patterns[k][2])
        longer_match == SearchNumber(query_lower, LongerThan)
        c3 == IF longer_match # <<>>
              THEN DictSet(c2, "min_length", str_int(longer_match[1]) + 1)
              ELSE c2
        shorter_match == SearchNumber(query_lower, ShorterThan)
        c4 == IF shorter_match # <<>>
              THEN DictSet(c3, "max_length", str_int(shorter_match[1]))
              ELSE c3
        char_match == SearchLetter(query_lower)
        c5 == IF char_match # <<>>
              THEN DictSet(c4, "contains_character", <<char_match[1]>>)
              ELSE c4
        c6 == IF Contains(query_lower, FirstVowel)
              THEN DictSet(c5, "contains_character", <<"a">>)
              ELSE c5
    IN  c6

extract_filters(query_text) ==
    LET query_lower == str_lower(query_text)
        c0 == EmptyDict
        c1 == IF Contains(query_lower, Palindrom)
              THEN DictSet(c0, "is_palindrome", TRUE)
              ELSE c0
        hits == {k \in 1..Len(word_patterns) :
                    Contains(query_lower, word_patterns[k][1])}
        c2 == IF hits = {} THEN c1
              ELSE LET k == CHOOSE h \in hits : \A o \in hits : h <= o
                   IN  DictSet(c1, "word_count", word_patterns[k][2])
        longer_match == SearchNumber(query_lower, LongerThan)
        c3 == IF longer_match # <<>>
              THEN DictSet(c2, "min_length", str_int(longer_match[1]) + 1)
              ELSE c2
        shorter_match == SearchNumber(query_lower, ShorterThan)
        c4 == IF shorter_match # <<>>
              THEN DictSet(c3, "max_length", str_int(shorter_match[1]) - 1)
              ELSE c3
        char_match == SearchLetter(query_lower)
        c5 == IF char_match # <<>>
              THEN DictSet(c4, "contains_character", <<char_match[1]>>)
              ELSE c4
        c6 == IF Contains(query_lower, FirstVowel)
              THEN DictSet(c5, "contains_character", <<"a">>)
              ELSE c5
    IN  c6

----------------------------------------------------------------------------
(* StringFilter, main.py:94-118.                                           *)

\* matches_criteria with the minimum length compared strictly
matches_criteria_StrictMin(string_data, filters) ==
    LET props == string_data.properties
    IN  /\ "is_palindrome" \in DOMAIN filters
            => props.is_palindrome = filters["is_palindrome"]
        /\ "min_length" \in DOMAIN filters
            => props.length > filters["min_length"]
        /\ "max_length" \in DOMAIN filters
            => props.length <= filters["max_length"]
        /\ "word_count" \in DOMAIN filters
            => props.word_count = filters["word_count"]
        /\ "contains_character" \in DOMAIN filters
            => Contains(string_data.value, filters["contains_character"])

matches_criteria(string_data, filters) ==
    LET props == string_data.properties
    IN  IF /\ "is_palindrome" \in DOMAIN filters
           /\ props.is_palindrome # filters["is_palindrome"]
        THEN FALSE
        ELSE IF /\ "min_length" \in DOMAIN filters
                /\ props.length < filters["min_length"]
        THEN FALSE
        ELSE IF /\ "max_length" \in DOMAIN filters
                /\ props.length > filters["max_length"]
        THEN FALSE
        ELSE IF /\ "word_count" \in DOMAIN filters
                /\ props.word_count # filters["word_count"]
        THEN FALSE
        ELSE IF /\ "contains_character" \in DOMAIN filters
                /\ ~Contains(string_data.value, filters["contains_character"])
        THEN FALSE
        ELSE TRUE

apply_filters(data_list, filters) ==
    SelectSeq(data_list, LAMBDA item : matches_criteria(item, filters))

----------------------------------------------------------------------------
(* The store: a dict from hash to record, main.py:13. An entry is          *)
(* [key, record]; the sequence is the dict's insertion order.              *)

dict_has(d, k) == \E i \in 1..Len(d) : d[i].key = k

\* list(d.values())
dict_values(d) == [i \in 1..Len(d) |-> d[i].record]

\* d[k] = v
dict_setitem(d, k, v) ==
    IF dict_has(d, k)
    THEN [i \in 1..Len(d) |-> IF d[i].key = k THEN [key |-> k, record |-> v] ELSE d[i]]
    ELSE Append(d, [key |-> k, record |-> v])

\* del d[k]
dict_delitem(d, k) == SelectSeq(d, LAMBDA e : e.key # k)

----------------------------------------------------------------------------
(* The handlers, main.py:124-228. Each yields the response (status, body)  *)
(* and the store it leaves.                                                *)

Outcome(status, body, store) == [status |-> status, body |-> body, store |-> store]

HTTPException(status_code, detail, store) ==
    Outcome(status_code, [detail |-> detail], store)

NoContent == [no_content |-> TRUE]

NewRecord(value, now) ==
    [id         |-> compute_hash(value),
     value      |-> value,
     properties |-> analyze(value),
     created_at |-> now]

\* add_string without the presence check: the record is stored over the old one
add_string_Overwrite(store, value, now) ==
    IF value = <<>>
    THEN HTTPException(422, "Invalid data type for value field", store)
    ELSE Outcome(201, NewRecord(value, now),
                 dict_setitem(store, compute_hash(value), NewRecord(value, now)))

\* add_string storing the record before the presence check
add_string_StoreFirst(store, value, now) ==
    IF value = <<>>
    THEN HTTPException(422, "Invalid data type for value field", store)
    ELSE LET stored == dict_setitem(store, compute_hash(value), NewRecord(value, now))
         IN  IF dict_has(store, compute_hash(value))
             THEN HTTPException(409, "String already exists", stored)
             ELSE Outcome(201, NewRecord(value, now), stored)

\* add_string without the empty-value check
add_string_NoEmptyCheck(store, value, now) ==
    IF dict_has(store, compute_hash(value))
    THEN HTTPException(409, "String already exists", store)
    ELSE Outcome(201, NewRecord(value, now),
                 dict_setitem(store, compute_hash(value), NewRecord(value, now)))

add_string(store, value, now) ==
    IF value = <<>>
    THEN HTTPException(422, "Invalid data type for value field", store)
    ELSE LET string_hash == compute_hash(value)
         IN  IF dict_has(store, string_hash)
             THEN HTTPException(409, "String already exists", store)
             ELSE LET analysis == analyze(value)
                      string_record == [id         |-> string_hash,
                                        value      |-> value,
                                        properties |-> analysis,
                                        created_at |-> now]
                  IN  Outcome(201, string_record,
                              dict_setitem(store, string_hash, string_record))

retrieve_string(store, string_value) ==
    LET found == {i \in 1..Len(store) : store[i].record.value = string_value}
    IN  IF found # {}
        THEN Outcome(200, store[CHOOSE i \in found : \A o \in found : i <= o].record,
                     store)
        ELSE HTTPException(404, "String does not exist in database", store)

\* An optional parameter is <<>> (None) or <<v>>.
list_strings(store, is_palindrome, min_length, max_length, word_count, contains_character) ==
    IF \/ min_length # <<>> /\ min_length[1] < 0
       \/ max_length # <<>> /\ max_length[1] < 0
       \/ word_count # <<>> /\ word_count[1] < 0
       \/ contains_character # <<>> /\ Len(contains_character[1]) # 1
    THEN HTTPException(400, "Invalid query parameter values or types", store)
    ELSE LET f0 == EmptyDict
             f1 == IF is_palindrome # <<>>
                   THEN DictSet(f0, "is_palindrome", is_palindrome[1]) ELSE f0
             f2 == IF min_length # <<>>
                   THEN DictSet(f1, "min_length", min_length[1]) ELSE f1
             f3 == IF max_length # <<>>
                   THEN DictSet(f2, "max_length", max_length[1]) ELSE f2
             f4 == IF word_count # <<>>
                   THEN DictSet(f3, "word_count", word_count[1]) ELSE f3
             filters == IF contains_character # <<>>
                   THEN DictSet(f4, "contains_character", contains_character[1])
                   ELSE f4
             all_records == dict_values(store)
             filtered_records == apply_filters(all_records, filters)
         IN  Outcome(200,
                     [data  |-> filtered_records,
                      count |-> Len(filtered_records),
                      filters_applied |->
                          [is_palindrome      |-> is_palindrome,
                           min_length         |-> min_length,
                           max_length         |-> max_length,
                           word_count         |-> word_count,
                           contains_character |-> contains_character]],
                     store)

\* query.strip() is empty
IsBlank(query) == \A i \in 1..Len(query) : query[i] \in Whitespace

natural_language_filter(store, query) ==
    IF IsBlank(query)
    THEN HTTPException(400, "Unable to parse natural language query", store)
    ELSE LET parsed_conditions == extract_filters(query)
         IN  IF DOMAIN parsed_conditions = {}
             THEN HTTPException(400, "Unable to parse natural language query", store)
             ELSE LET all_records == dict_values(store)
                      filtered_records == apply_filters(all_records, parsed_conditions)
                  IN  Outcome(200,
                              [data  |-> filtered_records,
                               count |-> Len(filtered_records),
                               interpreted_query |->
                                   [original       |-> query,
                                    parsed_filters |-> parsed_conditions]],
                              store)

\* remove_string deleting every record up to and including the match
remove_string_Prefix(store, string_value) ==
    LET found == {i \in 1..Len(store) : store[i].record.value = string_value}
    IN  IF found # {}
        THEN LET at == CHOOSE i \in found : \A o \in found : i <= o
             IN  Outcome(204, NoContent, SubSeq(store, at + 1, Len(store)))
        ELSE HTTPException(404, <<"String ", string_value, " not found!">>, store)

remove_string(store, string_value) ==
    LET found == {i \in 1..Len(store) : store[i].record.value = string_value}
    IN  IF found # {}
        THEN LET hash_key == store[CHOOSE i \in found : \A o \in found : i <= o].key
             IN  Outcome(204, NoContent, dict_delitem(store, hash_key))
        ELSE HTTPException(404, <<"String ", string_value, " not found!">>, store)

----------------------------------------------------------------------------
(* Requests handled one at a time.                                         *)

MaxStore == 2

\* Request bodies for POST /strings
StringValues ==
    {<<>>, <<"A", "a">>, <<"a", " ", "b">>, <<"b">>}

\* Path values for GET and DELETE /strings/{string_value}
PathValues == StringValues \ {<<>>}

\* datetime.utcnow() at the two instants a request may be handled
Timestamps == {0, 1}

OptBool == {<<>>, <<TRUE>>, <<FALSE>>}
MinLengths == {<<>>, <<-1>>, <<3>>}
MaxLengths == {<<>>, <<-1>>, <<2>>}
WordCounts == {<<>>, <<-1>>, <<1>>}
OptChars == {<<>>, <<<<"a">>>>, <<<<"a", "b">>>>}

\* ?query= of the natural-language endpoint
Queries ==
    {<<>>, <<" ">>, <<"x", "y", "z">>,
     <<"P", "a", "l", "i", "n", "d", "r", "o", "m", "i", "c">>,
     <<"s", "h", "o", "r", "t", "e", "r", " ", "t", "h", "a", "n", " ", "0">>,
     <<"s", "i", "n", "g", "l", "e", " ", "w", "o", "r", "d", " ", "l", "o", "n", "g", "e", "r", " ", "t", "h", "a", "n", " ", "1">>,
     <<"c", "o", "n", "t", "a", "i", "n", "i", "n", "g", " ", "t", "h", "e", " ", "l", "e", "t", "t", "e", "r", " ", "a">>}

NoRequest == [op |-> "none"]

Init ==
    /\ stored_strings = <<>>
    /\ request = NoRequest
    /\ response = [status |-> 0, body |-> NoContent]
    /\ threads = <<>>
    /\ dk_entries = <<>>

Answer(req, out) ==
    /\ request' = req
    /\ response' = [status |-> out.status, body |-> out.body]
    /\ stored_strings' = out.store
    /\ UNCHANGED <<threads, dk_entries>>

AddString ==
    \E value \in StringValues, now \in Timestamps :
        LET out == add_string(stored_strings, value, now)
        IN  /\ Len(out.store) <= MaxStore
            /\ Answer([op |-> "add_string", value |-> value, now |-> now], out)

RetrieveString ==
    \E string_value \in PathValues :
        Answer([op |-> "retrieve_string", string_value |-> string_value],
               retrieve_string(stored_strings, string_value))

ListStrings ==
    \E p \in OptBool, lo \in MinLengths, hi \in MaxLengths, wc \in WordCounts,
       ch \in OptChars :
        Answer([op |-> "list_strings", is_palindrome |-> p, min_length |-> lo,
                max_length |-> hi, word_count |-> wc, contains_character |-> ch],
               list_strings(stored_strings, p, lo, hi, wc, ch))

NaturalLanguageFilter ==
    \E query \in Queries :
        Answer([op |-> "natural_language_filter", query |-> query],
               natural_language_filter(stored_strings, query))

RemoveString ==
    \E string_value \in PathValues :
        Answer([op |-> "remove_string", string_value |-> string_value],
               remove_string(stored_strings, string_value))

Next ==
    \/ AddString
    \/ RetrieveString
    \/ ListStrings
    \/ NaturalLanguageFilter
    \/ RemoveString

Spec == Init /\ [][Next]_vars

----------------------------------------------------------------------------
(* Properties of the store under requests handled one at a time (Spec).    *)

IsStored(store, v) == \E i \in 1..Len(store) : store[i].record.value = v

\* C1: POST /strings with a non-empty value v answers 201 exactly when no
\* record keyed by hash(v) is stored; then the store gains exactly one entry,
\* keyed by hash(v) and holding v, and every other entry is unchanged. When
\* the key is stored the answer is 409 and the store is unchanged; so the
\* same value inserted twice in a row fails the second time.
C1_CreateIffAbsent ==
    [][request'.op = "add_string" /\ request'.value # <<>> =>
        LET v == request'.value
            h == compute_hash(v)
            present == \E i \in 1..Len(stored_strings) : stored_strings[i].key = h
            n == Len(stored_strings)
        IN  /\ (response'.status = 201) <=> ~present
            /\ ~present =>
                /\ Len(stored_strings') = n + 1
                /\ \A i \in 1..n : stored_strings'[i] = stored_strings[i]
                /\ stored_strings'[n + 1].key = h
                /\ stored_strings'[n + 1].record.value = v
                /\ response'.body = stored_strings'[n + 1].record
            /\ present =>
                /\ response'.status = 409
                /\ stored_strings' = stored_strings
            /\ (/\ request.op = "add_string"
                /\ request.value = v
                /\ response.status = 201) => response'.status = 409
    ]_vars

\* a duplicate create was refused while another record is stored
C1_Witness ==
    /\ request.op = "add_string"
    /\ response.status = 409
    /\ Len(stored_strings) = 2
    /\ stored_strings[1].record.value = request.value

Satisfies(r, req) ==
    /\ req.is_palindrome # <<>> => r.properties.is_palindrome = req.is_palindrome[1]
    /\ req.min_length # <<>> => r.properties.length >= req.min_length[1]
    /\ req.max_length # <<>> => r.properties.length <= req.max_length[1]
    /\ req.word_count # <<>> => r.properties.word_count = req.word_count[1]
    /\ req.contains_character # <<>> =>
          \E i \in 1..Len(r.value) : r.value[i] = req.contains_character[1][1]

ValidList(req) ==
    /\ req.min_length # <<>> => req.min_length[1] >= 0
    /\ req.max_length # <<>> => req.max_length[1] >= 0
    /\ req.word_count # <<>> => req.word_count[1] >= 0
    /\ req.contains_character # <<>> => Len(req.contains_character[1]) = 1

\* C4: GET /strings with a valid condition set answers 200 with exactly the
\* stored records that satisfy every supplied condition, each once, and count
\* is their number; with no condition that is every stored record.
C4_ListReturnsMatches ==
    [][request'.op = "list_strings" /\ ValidList(request') =>
        LET data == response'.body.data
            recs == dict_values(stored_strings)
        IN  /\ response'.status = 200
            /\ \A k \in 1..Len(data) :
                  /\ \E i \in 1..Len(recs) : recs[i] = data[k]
                  /\ Satisfies(data[k], request')
            /\ \A i \in 1..Len(recs) :
                  Satisfies(recs[i], request')
                     => Cardinality({k \in 1..Len(data) : data[k] = recs[i]}) = 1
            /\ response'.body.count = Len(data)
            /\ (/\ request'.is_palindrome = <<>>
                /\ request'.min_length = <<>>
                /\ request'.max_length = <<>>
                /\ request'.word_count = <<>>
                /\ request'.contains_character = <<>>)
                  => /\ response'.body.count = Len(stored_strings)
                     /\ \A i \in 1..Len(recs) :
                           Cardinality({k \in 1..Len(data) : data[k] = recs[i]}) = 1
    ]_vars

\* a list with two conditions kept one of two stored records, the one whose
\* length equals the minimum
C4_Witness ==
    /\ request.op = "list_strings"
    /\ response.status = 200
    /\ request.min_length = <<3>>
    /\ request.contains_character # <<>>
    /\ Len(stored_strings) = 2
    /\ response.body.count = 1

\* C5: a request answered with an error, and every successful read, leaves
\* the store as it was.
C5_ErrorsAndReadsKeepStore ==
    [][(\/ response'.status \in {422, 409, 404, 400}
        \/ request'.op \in {"retrieve_string", "list_strings",
                            "natural_language_filter"})
          => stored_strings' = stored_strings
    ]_vars

\* an invalid list request was refused with two records stored
C5_Witness ==
    /\ request.op = "list_strings"
    /\ response.status = 400
    /\ Len(stored_strings) = 2

\* C10: every entry's key is its record's id, the hash of its value and its
\* properties' sha256_hash; its properties are analyze(value); its value is
\* not empty; and no two entries hold the same value.
C10_StoreInvariant ==
    /\ \A i \in 1..Len(stored_strings) :
          LET e == stored_strings[i]
          IN  /\ e.key = e.record.id
              /\ e.record.id = compute_hash(e.record.value)
              /\ e.record.properties.sha256_hash = e.key
              /\ e.record.properties = analyze(e.record.value)
              /\ e.record.value # <<>>
    /\ \A i, j \in 1..Len(stored_strings) :
          stored_strings[i].record.value = stored_strings[j].record.value => i = j

\* two records are stored, the second just created
C10_Witness ==
    /\ Len(stored_strings) = 2
    /\ request.op = "add_string"
    /\ response.status = 201
    /\ stored_strings[2].record.value = request.value

----------------------------------------------------------------------------
(* The query parser and the filter on their own (SpecParse): a query is a  *)
(* concatenation of at most MaxFragments phrases; the store holds three    *)
(* records and does not change.                                            *)

MaxFragments == 2

Fragments ==
    {<<"l", "o", "n", "g", "e", "r", " ", "t", "h", "a", "n", " ", "1">>,
     <<" ", "l", "o", "n", "g", "e", "r", " ", "t", "h", "a", "n", " ", "3">>,
     <<"2">>,
     <<"s", "h", "o", "r", "t", "e", "r", " ", "t", "h", "a", "n", " ", "0">>,
     <<" ", "S", "h", "o", "r", "t", "e", "r", " ", "T", "h", "a", "n", " ", "2">>,
     <<"f", "i", "r", "s", "t", " ", "v", "o", "w", "e", "l">>,
     <<" ", "c", "o", "n", "t", "a", "i", "n", "s", " ", "t", "h", "e", " ", "l", "e", "t", "t", "e", "r", " ", "z">>,
     <<"C", "O", "N", "T", "A", "I", "N", "I", "N", "G", " ", "T", "H", "E", " ", "L", "E", "T", "T", "E", "R", " ", "B">>,
     <<"c", "o", "n", "t", "a", "i", "n", " ", "t", "h", "e", " ", "l", "e", "t", "t", "e", "r", " ">>,
     <<"p", "a", "l", "i", "n", "d", "r", "o", "m">>,
     <<"s", "i", "n", "g", "l", "e", " ", "w", "o", "r", "d">>,
     <<"t", "w", "o", " ", "w", "o", "r", "d">>,
     <<" ">>, <<"x", "y", "z">>, <<"l", "o", "n", "g", "e", "r", " ", "t", "h", "a", "n", " ">>}

RECURSIVE Concatenations(_)
Concatenations(n) ==
    IF n = 0 THEN {<<>>}
    ELSE LET shorter == Concatenations(n - 1)
         IN  shorter \cup {q \o f : q \in shorter, f \in Fragments}

ParseQueries == Concatenations(MaxFragments)

\* the store after POST /strings of "Aa", "a b" and "b"
SampleStore ==
    LET s1 == add_string(<<>>, <<"A", "a">>, 0).store
        s2 == add_string(s1, <<"a", " ", "b">>, 0).store
    IN  add_string(s2, <<"b">>, 1).store

\* the conditions of d restricted to the key k
OnlyKey(d, k) == [x \in {k} |-> d[x]]

\* the query is the input; the actions apply the parser and the handler to it
InitParse ==
    /\ stored_strings = SampleStore
    /\ request \in {[op |-> "pending", query_text |-> q] : q \in ParseQueries}
    /\ response = [status |-> 0, body |-> NoContent]
    /\ threads = <<>>
    /\ dk_entries = <<>>

\* extract_filters on a query, and apply_filters on the stored records for
\* each condition it set
ExtractFilters ==
    /\ request.op = "pending"
    /\ LET query_text == request.query_text
           conditions == extract_filters(query_text)
       IN  /\ request' = [op |-> "extract_filters", query_text |-> query_text]
           /\ response' =
                 [conditions |-> conditions,
                  selected   |-> [k \in DOMAIN conditions |->
                                    apply_filters(dict_values(stored_strings),
                                                  OnlyKey(conditions, k))]]
           /\ UNCHANGED <<stored_strings, threads, dk_entries>>

\* the handler on the same queries
FilterByNaturalLanguage ==
    /\ request.op = "pending"
    /\ Answer([op |-> "natural_language_filter", query |-> request.query_text],
              natural_language_filter(stored_strings, request.query_text))

NextParse ==
    \/ ExtractFilters
    \/ FilterByNaturalLanguage

SpecParse == InitParse /\ [][NextParse]_vars

\* C6: "first vowel" in the lowercased query sets contains_character to "a",
\* whatever the letter rule matched and wherever the two phrases stand; without
\* it the letter rule's letter, a lowercase one, is the value; with neither the
\* key is absent. The palindrome, word-count and length rules set their keys
\* whether or not this one fires.
C6_FirstVowelOverrides ==
    request.op = "extract_filters" =>
        LET ql == str_lower(request.query_text)
            c == response.conditions
            vowel == Contains(ql, FirstVowel)
            letter == SearchLetter(ql)
            words == {k \in 1..Len(word_patterns) : Contains(ql, word_patterns[k][1])}
        IN  /\ vowel => /\ "contains_character" \in DOMAIN c
                        /\ c["contains_character"] = <<"a">>
            /\ (~vowel /\ letter # <<>>) =>
                        /\ "contains_character" \in DOMAIN c
                        /\ c["contains_character"] = letter
                        /\ letter[1] \in AsciiLower
            /\ (~vowel /\ letter = <<>>) => "contains_character" \notin DOMAIN c
            /\ "is_palindrome" \in DOMAIN c <=> Contains(ql, Palindrom)
            /\ "word_count" \in DOMAIN c <=> words # {}
            /\ "min_length" \in DOMAIN c <=> SearchNumber(ql, LongerThan) # <<>>
            /\ "max_length" \in DOMAIN c <=> SearchNumber(ql, ShorterThan) # <<>>

\* "first vowel" stands before a letter phrase that matched another letter
C6_Witness ==
    /\ request.op = "extract_filters"
    /\ MatchAt(str_lower(request.query_text), 0, FirstVowel)
    /\ SearchLetter(str_lower(request.query_text)) = <<"z">>
    /\ response.conditions["contains_character"] = <<"a">>

\* the places where lit is followed by a digit
Occurrences(text, lit) ==
    {i \in 0..Len(text) :
        /\ MatchAt(text, i, lit)
        /\ i + Len(lit) + 1 <= Len(text)
        /\ IsDigit(text[i + Len(lit) + 1])}

\* the number written after lit at place i
NumberAt(text, lit, i) ==
    str_int(SubSeq(text, i + Len(lit) + 1, DigitRunEnd(text, i + Len(lit) + 1)))

Lengths(records) == {Len(records[i].value) : i \in 1..Len(records)}

\* the records are exactly those of the store whose length satisfies keep
SelectsExactly(selected, store, keep(_)) ==
    LET records == dict_values(store)
    IN  /\ Lengths(selected) = {n \in Lengths(records) : keep(n)}
        /\ \A k \in 1..Len(selected) :
              \E i \in 1..Len(records) : records[i] = selected[k]

\* C7 as stated: whenever "longer than N" stands in the query min_length is
\* N + 1 and that condition selects exactly the records longer than N;
\* whenever "shorter than N" stands in it max_length is N - 1 and that
\* condition selects exactly the records shorter than N; "shorter than 0" is
\* answered 200 with max_length = -1 and no record.
C7_EveryOccurrence ==
    LET q == IF request.op = "extract_filters" THEN request.query_text
             ELSE IF request.op = "natural_language_filter" THEN request.query
             ELSE <<>>
        ql == str_lower(q)
    IN  /\ request.op = "extract_filters" =>
            /\ \A i \in Occurrences(ql, LongerThan) :
                  LET N == NumberAt(ql, LongerThan, i)
                  IN  /\ response.conditions["min_length"] = N + 1
                      /\ SelectsExactly(response.selected["min_length"],
                                        stored_strings, LAMBDA n : n > N)
            /\ \A i \in Occurrences(ql, ShorterThan) :
                  LET N == NumberAt(ql, ShorterThan, i)
                  IN  /\ response.conditions["max_length"] = N - 1
                      /\ SelectsExactly(response.selected["max_length"],
                                        stored_strings, LAMBDA n : n < N)
        /\ request.op = "natural_language_filter" =>
              \A i \in Occurrences(ql, ShorterThan) :
                  NumberAt(ql, ShorterThan, i) = 0 =>
                      /\ response.status = 200
                      /\ response.body.interpreted_query.parsed_filters["max_length"] = -1
                      /\ response.body.count = 0

\* C7, amended: the first "longer than N" of the query sets min_length to
\* N + 1 and that condition selects exactly the records longer than N; the
\* first "shorter than N" sets max_length to N - 1 and that condition selects
\* exactly the records shorter than N. For N = 0 max_length is -1, the handler
\* answers 200 and no record is selected.
C7_FirstOccurrence ==
    LET q == IF request.op = "extract_filters" THEN request.query_text
             ELSE IF request.op = "natural_language_filter" THEN request.query
             ELSE <<>>
        ql == str_lower(q)
        longer == Occurrences(ql, LongerThan)
        shorter == Occurrences(ql, ShorterThan)
        first(S) == CHOOSE i \in S : \A o \in S : i <= o
    IN  /\ request.op = "extract_filters" =>
            /\ longer # {} =>
                LET N == NumberAt(ql, LongerThan, first(longer))
                IN  /\ response.conditions["min_length"] = N + 1
                    /\ SelectsExactly(response.selected["min_length"],
                                      stored_strings, LAMBDA n : n > N)
            /\ shorter # {} =>
                LET N == NumberAt(ql, ShorterThan, first(shorter))
                IN  /\ response.conditions["max_length"] = N - 1
                    /\ SelectsExactly(response.selected["max_length"],
                                      stored_strings, LAMBDA n : n < N)
        /\ (/\ request.op = "natural_language_filter"
            /\ shorter # {}
            /\ NumberAt(ql, ShorterThan, first(shorter)) = 0) =>
                /\ response.status = 200
                /\ response.body.interpreted_query.parsed_filters["max_length"] = -1
                /\ response.body.count = 0
                /\ response.body.data = <<>>

\* "shorter than 0" was parsed to max_length = -1 and selected nothing
C7_Witness ==
    /\ request.op = "extract_filters"
    /\ "max_length" \in DOMAIN response.conditions
    /\ response.conditions["max_length"] = -1
    /\ response.selected["max_length"] = <<>>
    /\ "min_length" \in DOMAIN response.conditions
    /\ Len(response.selected["min_length"]) = 2

----------------------------------------------------------------------------
(* The analyzer on its own (SpecAnalyze): every text of at most MaxLen     *)
(* characters over Alphabet.                                               *)

MaxLen == 3

Alphabet == {"a", "A", "b", " ", "U+0130"}

RECURSIVE Texts(_)
Texts(n) ==
    IF n = 0 THEN {<<>>}
    ELSE LET shorter == Texts(n - 1)
         IN  shorter \cup {Append(t, c) : t \in shorter, c \in Alphabet}

InitAnalyze ==
    /\ stored_strings = <<>>
    /\ request \in {[op |-> "pending", text |-> t] : t \in Texts(MaxLen)}
    /\ response = [status |-> 0, body |-> NoContent]
    /\ threads = <<>>
    /\ dk_entries = <<>>

Analyze ==
    /\ request.op = "pending"
    /\ request' = [op |-> "analyze", text |-> request.text]
    /\ response' = analyze(request.text)
    /\ UNCHANGED <<stored_strings, threads, dk_entries>>

NextAnalyze == Analyze

SpecAnalyze == InitAnalyze /\ [][NextAnalyze]_vars

\* two characters that differ at most in case
SameLetter(c, d) ==
    \/ c = d
    \/ \E i \in 1..Len(LowerCase) :
          {c, d} = {LowerCase[i], UpperCase[i]}

CaseVariant(s, t) ==
    /\ Len(s) = Len(t)
    /\ \A i \in 1..Len(s) : SameLetter(s[i], t[i])

WithoutSpaces(s) == SelectSeq(s, LAMBDA c : c \notin Whitespace)

\* C8: is_palindrome is true exactly when the lowercased text equals its own
\* reversal; so the empty text and every one-character text are palindromes, a
\* text and its case variants get the same answer, and a text that reads the
\* same backwards only once its spaces are removed is not one.
C8_Palindrome ==
    request.op = "analyze" =>
        LET s == request.text
            lowered == str_lower(s)
        IN  /\ response.is_palindrome
                  <=> \A i \in 1..Len(lowered) : lowered[i] = lowered[Len(lowered) + 1 - i]
            /\ Len(s) <= 1 => response.is_palindrome
            /\ \A t \in Texts(Len(s)) :
                  CaseVariant(s, t) => (check_palindrome(t) <=> response.is_palindrome)
            /\ (/\ s # reversed(s)
                /\ WithoutSpaces(s) = reversed(WithoutSpaces(s))
                /\ CaseVariant(s, lowered)) => ~response.is_palindrome

----------------------------------------------------------------------------
(* Requests as they arrive over HTTP (SpecRouted): the route table in the  *)
(* order main.py registers it, lines 120, 124, 146, 154, 199 and 221. A    *)
(* path is its sequence of segments; a route's segment is a literal or a    *)
(* path parameter, which matches any one segment. The router answers with   *)
(* the first route whose path and method both match.                        *)

StringsSegment == <<"s", "t", "r", "i", "n", "g", "s">>
NaturalLanguageSegment ==
    <<"f", "i", "l", "t", "e", "r", "-", "b", "y", "-", "n", "a", "t", "u", "r", "a", "l", "-", "l", "a", "n", "g", "u", "a", "g", "e">>

Literal(text) == [literal |-> text]
PathParam == [param |-> "string_value"]

Routes ==
    << [method |-> "GET",    path |-> <<>>,
        endpoint |-> "root"],
       [method |-> "POST",   path |-> <<Literal(StringsSegment)>>,
        endpoint |-> "add_string"],
       [method |-> "GET",    path |-> <<Literal(StringsSegment), PathParam>>,
        endpoint |-> "retrieve_string"],
       [method |-> "GET",    path |-> <<Literal(StringsSegment)>>,
        endpoint |-> "list_strings"],
       [method |-> "GET",
        path |-> <<Literal(StringsSegment), Literal(NaturalLanguageSegment)>>,
        endpoint |-> "natural_language_filter"],
       [method |-> "DELETE", path |-> <<Literal(StringsSegment), PathParam>>,
        endpoint |-> "remove_string"] >>

PathMatches(pattern, path) ==
    /\ Len(pattern) = Len(path)
    /\ \A i \in 1..Len(pattern) :
          \/ "param" \in DOMAIN pattern[i]
          \/ /\ "literal" \in DOMAIN pattern[i]
             /\ pattern[i].literal = path[i]

\* the index of the route that answers, 0 when no path matches (404) and -1
\* when a path matches but no method does (405)
Dispatch(routes, method, path) ==
    LET full == {i \in 1..Len(routes) :
                    PathMatches(routes[i].path, path) /\ routes[i].method = method}
        partial == {i \in 1..Len(routes) : PathMatches(routes[i].path, path)}
    IN  IF full # {} THEN CHOOSE i \in full : \A o \in full : i <= o
        ELSE IF partial # {} THEN -1
        ELSE 0

\* An HTTP request: method, path, the query parameters and the JSON body that
\* the endpoints read, and the clock when it is handled.
Serve(store, req) ==
    LET at == Dispatch(Routes, req.method, req.path)
    IN  IF at = 0 THEN HTTPException(404, "Not Found", store)
        ELSE IF at = -1 THEN HTTPException(405, "Method Not Allowed", store)
        ELSE LET endpoint == Routes[at].endpoint
             IN  CASE endpoint = "root" ->
                        Outcome(307, [location |-> "/docs"], store)
                   [] endpoint = "add_string" ->
                        add_string(store, req.value, req.now)
                   [] endpoint = "retrieve_string" ->
                        retrieve_string(store, req.path[2])
                   [] endpoint = "list_strings" ->
                        list_strings(store, req.is_palindrome, <<>>, <<>>,
                                     req.word_count, <<>>)
                   [] endpoint = "natural_language_filter" ->
                        IF req.query = <<>>
                        THEN HTTPException(422, "Field required", store)
                        ELSE natural_language_filter(store, req.query[1])
                   [] endpoint = "remove_string" ->
                        remove_string(store, req.path[2])

RoutedValues == StringValues \cup {NaturalLanguageSegment}

OptQueries == {<<>>} \cup {<<q>> : q \in Queries}

HttpRequest(method, path) ==
    [op |-> "http", method |-> method, path |-> path, value |-> <<>>, now |-> 0,
     query |-> <<>>, is_palindrome |-> <<>>, word_count |-> <<>>]

HttpRequests ==
    {HttpRequest("GET", <<>>)}
    \cup {[HttpRequest("POST", <<StringsSegment>>) EXCEPT !.value = v, !.now = t] :
            v \in RoutedValues, t \in Timestamps}
    \cup {[HttpRequest("GET", <<StringsSegment, seg>>) EXCEPT !.query = q] :
            seg \in RoutedValues \ {<<>>}, q \in OptQueries}
    \cup {[HttpRequest("GET", <<StringsSegment>>)
              EXCEPT !.is_palindrome = p, !.word_count = wc] :
            p \in OptBool, wc \in WordCounts}
    \cup {HttpRequest("DELETE", <<StringsSegment, seg>>) :
            seg \in RoutedValues \ {<<>>}}
    \cup {HttpRequest("DELETE", <<StringsSegment>>),
          HttpRequest("GET", <<NaturalLanguageSegment>>)}

HandleRequest ==
    \E req \in HttpRequests :
        LET out == Serve(stored_strings, req)
        IN  /\ Len(out.store) <= MaxStore
            /\ Answer(req, out)

NextRouted == HandleRequest

SpecRouted == Init /\ [][NextRouted]_vars

\* C3: GET /strings/filter-by-natural-language with a query parameter is
\* answered by the natural-language filter: 400 for a blank query or one that
\* yields no condition, otherwise 200 with the matching records, their count
\* and the interpreted query; never by the get-by-value lookup.
C3_NaturalLanguageRouteAnswers ==
    (/\ request.op = "http"
     /\ request.method = "GET"
     /\ request.path = <<StringsSegment, NaturalLanguageSegment>>
     /\ request.query # <<>>) =>
        LET expected == natural_language_filter(stored_strings, request.query[1])
        IN  /\ response.status = expected.status
            /\ response.body = expected.body
            /\ response.status \in {200, 400}

----------------------------------------------------------------------------
(* The handlers on concurrent worker threads (SpecConc). The endpoints are *)
(* plain functions, so the framework runs each request on a thread of its  *)
(* pool; the interpreter may switch threads between any two operations on  *)
(* the dict, each of which is atomic. No handler takes a lock. The dict is *)
(* its entry array: a deleted entry keeps its slot, an iterator walks the   *)
(* slots and raises RuntimeError when the dict's size is not the size it    *)
(* saw when it was created.                                                 *)

NThreads == 2

Threads == 1..NThreads

ConcValues == {<<"A", "a">>, <<"b">>}

Live(entries) ==
    LET live == SelectSeq(entries, LAMBDA e : e.live)
    IN  [i \in 1..Len(live) |-> [key |-> live[i].key, record |-> live[i].record]]

AsEntries(store) ==
    [i \in 1..Len(store) |->
        [key |-> store[i].key, record |-> store[i].record, live |-> TRUE]]

\* len(d)
dk_used(entries) == Len(Live(entries))

\* k in d
dk_has(entries, k) == \E i \in 1..Len(entries) : entries[i].live /\ entries[i].key = k

\* d[k] = v
dk_setitem(entries, k, v) ==
    IF dk_has(entries, k)
    THEN [i \in 1..Len(entries) |->
            IF entries[i].live /\ entries[i].key = k
            THEN [entries[i] EXCEPT !.record = v] ELSE entries[i]]
    ELSE Append(entries, [key |-> k, record |-> v, live |-> TRUE])

\* del d[k]
dk_delitem(entries, k) ==
    [i \in 1..Len(entries) |->
        IF entries[i].key = k THEN [entries[i] EXCEPT !.live = FALSE] ELSE entries[i]]

Idle ==
    [pc |-> "idle", op |-> "none", value |-> <<>>, now |-> 0,
     string_hash |-> compute_hash(<<>>), it_pos |-> 0, it_used |-> 0,
     it_seen |-> <<>>, torn |-> FALSE, status |-> 0]

InitConc ==
    /\ stored_strings \in {<<>>,
                           add_string(<<>>, <<"b">>, 0).store,
                           add_string(add_string(<<>>, <<"a", " ", "b">>, 0).store,
                                      <<"b">>, 0).store}
    /\ dk_entries = AsEntries(stored_strings)
    /\ threads = [t \in Threads |-> Idle]
    /\ request = NoRequest
    /\ response = [status |-> 0, body |-> NoContent]

Step(t, thread, entries) ==
    /\ threads' = [threads EXCEPT ![t] = thread]
    /\ dk_entries' = entries
    /\ stored_strings' = Live(entries)
    /\ UNCHANGED <<request, response>>

Done(thread, status) == [thread EXCEPT !.pc = "done", !.status = status]

\* a request reaches a worker thread
Begin(t) ==
    /\ threads[t].pc = "idle"
    /\ \E op \in {"add_string", "retrieve_string", "remove_string", "list_strings"},
          value \in ConcValues, now \in Timestamps :
          Step(t,
               [Idle EXCEPT !.op = op, !.value = value, !.now = now,
                            !.pc = CASE op = "add_string" -> "add_check"
                                     [] op = "list_strings" -> "list"
                                     [] OTHER -> "scan_iter"],
               dk_entries)

\* add_string, main.py:126-132: the checks
AddCheck(t) ==
    /\ threads[t].pc = "add_check"
    /\ LET th == threads[t]
           string_hash == compute_hash(th.value)
       IN  IF th.value = <<>> THEN Step(t, Done(th, 422), dk_entries)
           ELSE IF dk_has(dk_entries, string_hash)
           THEN Step(t, Done(th, 409), dk_entries)
           ELSE Step(t, [th EXCEPT !.pc = "add_store", !.string_hash = string_hash],
                     dk_entries)

\* add_string, main.py:134-144: the record is built and stored
AddStore(t) ==
    /\ threads[t].pc = "add_store"
    /\ LET th == threads[t]
       IN  Step(t, Done(th, 201),
                dk_setitem(dk_entries, th.string_hash, NewRecord(th.value, th.now)))

\* retrieve_string and remove_string, main.py:148 and 223: the iterator is made
ScanIter(t) ==
    /\ threads[t].pc = "scan_iter"
    /\ Step(t,
            [threads[t] EXCEPT !.pc = "scan_next", !.it_pos = 0,
                               !.it_used = dk_used(dk_entries),
                               !.it_seen = dk_entries],
            dk_entries)

\* main.py:148-150 and 223-224: the iterator's next entry, and the comparison
ScanNext(t) ==
    /\ threads[t].pc = "scan_next"
    /\ LET th == [threads[t] EXCEPT !.torn = (dk_entries # threads[t].it_seen)]
           rest == {i \in 1..Len(dk_entries) : i > th.it_pos /\ dk_entries[i].live}
       IN  IF dk_used(dk_entries) # th.it_used
           THEN Step(t, Done(th, 500), dk_entries)
           ELSE IF rest = {} THEN Step(t, Done(th, 404), dk_entries)
           ELSE LET i == CHOOSE r \in rest : \A o \in rest : r <= o
                IN  IF dk_entries[i].record.value # th.value
                    THEN Step(t, [th EXCEPT !.it_pos = i], dk_entries)
                    ELSE IF th.op = "retrieve_string"
                    THEN Step(t, Done(th, 200), dk_entries)
                    ELSE Step(t, [th EXCEPT !.pc = "del_item",
                                            !.string_hash = dk_entries[i].key],
                              dk_entries)

\* remove_string, main.py:225: del stored_strings[hash_key]
DelItem(t) ==
    /\ threads[t].pc = "del_item"
    /\ LET th == threads[t]
       IN  IF dk_has(dk_entries, th.string_hash)
           THEN Step(t, Done(th, 204), dk_delitem(dk_entries, th.string_hash))
           ELSE Step(t, Done(th, 500), dk_entries)

\* list_strings, main.py:184: list(stored_strings.values()) is one operation
ListAll(t) ==
    /\ threads[t].pc = "list"
    /\ Step(t, Done(threads[t], 200), dk_entries)

NextConc ==
    \E t \in Threads :
        \/ Begin(t)
        \/ AddCheck(t)
        \/ AddStore(t)
        \/ ScanIter(t)
        \/ ScanNext(t)
        \/ DelItem(t)
        \/ ListAll(t)

SpecConc == InitConc /\ [][NextConc]_vars

\* C9: under concurrent threads no scan sees the mapping changed since the
\* scan began, no request fails on such a change, and two creates of the same
\* value never both answer 201 (unless a delete of it succeeded).
C9_StoreAccessSerialized ==
    /\ \A t \in Threads : ~threads[t].torn
    /\ \A t \in Threads : threads[t].status # 500
    /\ \A t1, t2 \in Threads :
          (/\ t1 # t2
           /\ threads[t1].op = "add_string" /\ threads[t1].status = 201
           /\ threads[t2].op = "add_string" /\ threads[t2].status = 201
           /\ threads[t1].value = threads[t2].value)
              => \E t3 \in Threads :
                    /\ threads[t3].op = "remove_string"
                    /\ threads[t3].value = threads[t1].value
                    /\ threads[t3].status = 204

====
